---- MODULE Spec2Model ----
(***************************************************************************)
(* A model of blogger-plugin (packages/blogger-plugin/src): the string     *)
(* utilities, the proxy middleware installed by useServerMiddleware, and   *)
(* the config / configResolved / generateBundle hooks of blogger().        *)
(*                                                                         *)
(* Text is a sequence of tokens.  A token is a piece of text that no       *)
(* pattern of the program splits: one of the characters the code looks at  *)
(* ("$", "&", "'", ...), one marker comment, one host name, one protocol,  *)
(* or a run of characters none of the patterns mentions.  Concatenation of *)
(* strings is \o, and two texts are equal iff their token sequences are.   *)
(***************************************************************************)
EXTENDS Integers, Sequences, FiniteSets, TLC

VARIABLES
    phase,          \* life cycle of the plugin instance
    ctx,            \* PluginContext
    fs,             \* the files the hooks read and write: path -> content
    emitted,        \* files handed to this.emitFile by generateBundle
    server,         \* "none", "dev" (ViteDevServer) or "preview" (PreviewServer)
    pc,             \* position of the request handler
    req,            \* the inbound request
    proxyUrl,       \* const proxyUrl
    proxyResponse,  \* const proxyResponse (NoResponse: null, or not there yet)
    loc,            \* the handler's other locals
    res,            \* the ServerResponse
    io,             \* what the handler did to its collaborators
    fn,             \* call frame of a utility function called on its own
    parked          \* the handler activations suspended at an await

vars == <<phase, ctx, fs, emitted, server, pc, req, proxyUrl, proxyResponse,
          loc, res, io, fn, parked>>

\* undefined / null of the source, where the value would be a string
Null == "<null>"

\* a value that may be undefined or null, where it would be a text or a
\* record: None, or Some(x)
None == <<>>
Some(x) == <<x>>

----------------------------------------------------------------------------
\* Bounds of the model

\* longest marker-free stretch of a document before, between and after markers
MaxPad == 1
\* longest replacement handed to replaceBloggerPluginHeadComment on its own
MaxReplLen == 2
\* longest text handed to replaceHost on its own
MaxHostInputLen == 3
\* most outputs in a bundle
MaxBundle == 2
\* longest value of an inbound view parameter
MaxViewLen == 3

----------------------------------------------------------------------------
\* Sequences

SeqsUpTo(S, n) == UNION {[1..k -> S] : k \in 0..n}

\* pat occurs in s at index i
MatchAt(s, pat, i) ==
    /\ i >= 1
    /\ i + Len(pat) - 1 <= Len(s)
    /\ SubSeq(s, i, i + Len(pat) - 1) = pat

\* index of the first occurrence of pat in s at or after i, 0 when there is none
FirstMatchFrom(s, pat, i) ==
    LET hits == {j \in i..Len(s) : MatchAt(s, pat, j)}
    IN  IF hits = {} THEN 0 ELSE CHOOSE j \in hits : \A k \in hits : j <= k

Contains(s, pat) == FirstMatchFrom(s, pat, 1) # 0

\* String.prototype.replaceAll(pat, ''): leftmost non-overlapping occurrences
RECURSIVE RemoveAll(_, _)
RemoveAll(s, pat) ==
    LET i == FirstMatchFrom(s, pat, 1)
    IN  IF i = 0 THEN s
        ELSE SubSeq(s, 1, i - 1) \o RemoveAll(SubSeq(s, i + Len(pat), Len(s)), pat)

----------------------------------------------------------------------------
\* utils: escapeHtml

\* the grave accent (U+0060), written out because the character ends a string
\* for the parser
Grave == "GRAVE"

\* the switch of escapeHtml; an entity is the character "&" and the rest
EscapeChar(ch) ==
    CASE ch = "&"  -> <<"&", "amp;">>
      [] ch = "<"  -> <<"&", "lt;">>
      [] ch = ">"  -> <<"&", "gt;">>
      [] ch = "\"" -> <<"&", "quot;">>
      [] ch = "'"  -> <<"&", "#39;">>
      [] ch = Grave -> <<"&", "#96;">>
      [] OTHER     -> <<ch>>

RECURSIVE escapeHtml(_)
escapeHtml(str) ==
    IF str = <<>> THEN <<>>
    ELSE EscapeChar(Head(str)) \o escapeHtml(Tail(str))

----------------------------------------------------------------------------
\* utils: the head-comment markers

BeginC == "<!--blogger-plugin:head:begin-->"
EndC   == "<!--blogger-plugin:head:end-->"
BOpen  == "<b:comment>"
BClose == "</b:comment>"

\* marker-free stretches of a document
MarkerPads == SeqsUpTo({"x"}, MaxPad)

BeginMark(bcomment) == IF bcomment THEN <<BOpen, BeginC, BClose>> ELSE <<BeginC>>
EndMark(bcomment)   == IF bcomment THEN <<BOpen, EndC, BClose>> ELSE <<EndC>>

\* The match of  BEGIN[\s\S]*?END : the first BEGIN that has an END after it
\* is the first BEGIN of the input, and the lazy star stops at the first END
\* after it.
MarkerMatch(input, bcomment) ==
    LET i == FirstMatchFrom(input, BeginMark(bcomment), 1)
        j == IF i = 0 THEN 0
             ELSE FirstMatchFrom(input, EndMark(bcomment), i + Len(BeginMark(bcomment)))
    IN  [found |-> i # 0 /\ j # 0,
         from  |-> i,
         inner |-> i + Len(BeginMark(bcomment)),
         endAt |-> j,
         to    |-> j + Len(EndMark(bcomment)) - 1]

\* GetSubstitution of String.prototype.replace for a replacement STRING and a
\* pattern without capture groups: $$ is a dollar, $& the matched text, $ and a
\* grave accent the text before the match, $' the text after it; any other $
\* stands for itself.
RECURSIVE GetSubstitution(_, _, _, _)
GetSubstitution(template, matched, before, after) ==
    IF template = <<>> THEN <<>>
    ELSE IF Head(template) = "$" /\ Len(template) >= 2
              /\ template[2] \in {"$", "&", Grave, "'"}
         THEN (CASE template[2] = "$" -> <<"$">>
                 [] template[2] = "&" -> matched
                 [] template[2] = Grave -> before
                 [] template[2] = "'" -> after)
              \o GetSubstitution(SubSeq(template, 3, Len(template)), matched, before, after)
         ELSE <<Head(template)>>
              \o GetSubstitution(Tail(template), matched, before, after)

replaceBloggerPluginHeadComment(input, replacement, bcomment) ==
    LET m == MarkerMatch(input, bcomment)
    IN  IF ~m.found THEN input
        ELSE LET before  == SubSeq(input, 1, m.from - 1)
                 matched == SubSeq(input, m.from, m.to)
                 after   == SubSeq(input, m.to + 1, Len(input))
             IN  before
                 \o GetSubstitution(BeginMark(bcomment) \o replacement \o EndMark(bcomment),
                                    matched, before, after)
                 \o after

getBloggerPluginHeadComment(input, bcomment) ==
    LET m == MarkerMatch(input, bcomment)
    IN  IF ~m.found THEN None ELSE Some(SubSeq(input, m.inner, m.endAt - 1))

----------------------------------------------------------------------------
\* utils: replaceHost

Protocols == {"http:", "https:"}
\* the two spellings of the double slash: //  and  \/\/
Slashes == {"//", "\\/\\/"}

\* a replacer that puts the new protocol in front of every match, also in
\* front of a match that had no protocol
HostReplacerAlwaysProtocol(protocol, slash, newHost, newProtocol) ==
    (IF newProtocol # Null THEN <<newProtocol>>
        ELSE IF protocol # Null THEN <<protocol>> ELSE <<>>)
    \o <<slash, newHost>>

\* the replacer of replaceHost:
\*   protocol ? (newProtocol ?? protocol) : ''  then slash, then newHost
HostReplacer(protocol, slash, newHost, newProtocol) ==
    (IF protocol # Null
        THEN <<IF newProtocol # Null THEN newProtocol ELSE protocol>>
        ELSE <<>>)
    \o <<slash, newHost>>

\* input.replace(/(https?:)?(\/\/|\\/\\/)oldHost/g, replacer): a left-to-right
\* scan, the optional protocol taken when it is there
RECURSIVE replaceHost(_, _, _, _)
replaceHost(input, oldHost, newHost, newProtocol) ==
    IF input = <<>> THEN <<>>
    ELSE IF /\ Len(input) >= 3
            /\ input[1] \in Protocols
            /\ input[2] \in Slashes
            /\ input[3] = oldHost
         THEN HostReplacer(input[1], input[2], newHost, newProtocol)
              \o replaceHost(SubSeq(input, 4, Len(input)), oldHost, newHost, newProtocol)
    ELSE IF /\ Len(input) >= 2
            /\ input[1] \in Slashes
            /\ input[2] = oldHost
         THEN HostReplacer(Null, input[1], newHost, newProtocol)
              \o replaceHost(SubSeq(input, 3, Len(input)), oldHost, newHost, newProtocol)
    ELSE <<Head(input)>> \o replaceHost(Tail(input), oldHost, newHost, newProtocol)

----------------------------------------------------------------------------
\* URLs, as the handler uses them through new URL, searchParams and href.
\*
\* A URL string is kept parsed: a reference is a record
\*   [form, protocol, host, pathname, query, hash]
\* whose form says what the string spells out: "path" (/p?q#h), "netpath"
\* (//host/p?q#h) or "absolute" (proto//host/p?q#h).  query is a sequence of
\* <<name, value>> pairs, value and hash are texts.

Ref(form, protocol, host, pathname, query, hash) ==
    [form |-> form, protocol |-> protocol, host |-> host,
     pathname |-> pathname, query |-> query, hash |-> hash]

\* no URL (undefined)
NoUrl == Ref("none", Null, Null, Null, <<>>, <<>>)

\* new URL(ref, base): the reference supplies what it spells out, the base the
\* rest
ParseUrl(ref, base) ==
    [protocol |-> IF ref.form = "absolute" THEN ref.protocol ELSE base.protocol,
     host     |-> IF ref.form = "path" THEN base.host ELSE ref.host,
     pathname |-> ref.pathname,
     query    |-> ref.query,
     hash     |-> ref.hash]

\* searchParams.get(name): the first value, or null
GetParam(query, name) ==
    LET hits == {i \in 1..Len(query) : query[i][1] = name}
    IN  IF hits = {} THEN None
        ELSE Some(query[CHOOSE i \in hits : \A k \in hits : i <= k][2])

\* searchParams.delete(name)
DeleteParam(query, name) == SelectSeq(query, LAMBDA p : p[1] # name)

\* searchParams.set(name, value): the first pair takes the value, the others
\* of that name go; without one the pair is appended
SetParam(query, name, value) ==
    LET hits == {i \in 1..Len(query) : query[i][1] = name}
    IN  IF hits = {} THEN Append(query, <<name, value>>)
        ELSE LET first == CHOOSE i \in hits : \A k \in hits : i <= k
             IN  SubSeq(query, 1, first - 1)
                 \o << <<name, value>> >>
                 \o DeleteParam(SubSeq(query, first + 1, Len(query)), name)

RECURSIVE JoinParams(_)
JoinParams(query) ==
    <<query[1][1], "=">> \o query[1][2]
    \o (IF Len(query) = 1 THEN <<>> ELSE <<"&">> \o JoinParams(Tail(query)))

\* url.search
Search(query) == IF query = <<>> THEN <<>> ELSE <<"?">> \o JoinParams(query)

\* url.href
Href(url) == <<url.protocol, "//", url.host, url.pathname>> \o Search(url.query) \o url.hash

\* url.pathname + url.search + url.hash
PathSearchHash(url) == <<url.pathname>> \o Search(url.query) \o url.hash

----------------------------------------------------------------------------
\* blogger(): the plugin context and the files

\* config.root || process.cwd()
Root == <<"/proj/">>

\* path.resolve(root, ...segments)
Resolve(root, rel) == root \o rel

\* path.relative(root, file), for a file below root
Relative(root, file) ==
    IF MatchAt(file, root, 1) THEN SubSeq(file, Len(root) + 1, Len(file)) ELSE file

DEFAULT_ENTRIES ==
    <<"index.tsx", "index.ts", "index.jsx", "index.js",
      "main.tsx", "main.ts", "main.jsx", "main.js">>
DEFAULT_TEMPLATES == <<"template.xml", "theme.xml">>

\* no path: undefined, or the empty string, which the code takes for it
NoPath == <<>>

\* the first candidate under src that exists, or undefined
FirstExisting(files, candidates) ==
    LET hits == {i \in 1..Len(candidates) :
                    Resolve(Root, <<"src/", candidates[i]>>) \in DOMAIN files}
    IN  IF hits = {} THEN NoPath
        ELSE Resolve(Root, <<"src/", candidates[CHOOSE i \in hits : \A k \in hits : i <= k]>>)

\* the entry or template of config(): the provided path when it exists, the
\* first default otherwise, undefined when this.error is raised
ResolveFile(files, provided, candidates) ==
    IF provided # NoPath
    THEN IF Resolve(Root, provided) \in DOMAIN files THEN Resolve(Root, provided) ELSE NoPath
    ELSE FirstExisting(files, candidates)

createPluginContext(userOptions) ==
    [viteConfig |-> None, entry |-> NoPath, template |-> NoPath, options |-> userOptions]

\* path.resolve(ctx.viteConfig[1].build.outDir, 'template.xml')
OutTemplate(outDir) == outDir \o <<"template.xml">>

----------------------------------------------------------------------------
\* useServerMiddleware: the pieces of the request handler

isViteDevServer(srv) == srv = "dev"

DevServerMark     == <<"-Dev", "Server">>        \* '-DevServer'
PreviewServerMark == <<"-Preview", "Server">>    \* '-PreviewServer'

\* tokens whose first character is a dash
DashTokens == {"-", "-Dev", "-Preview"}

\* viewParam?.startsWith('-')
StartsWithDash(viewParam) ==
    /\ viewParam # None
    /\ viewParam[1] # <<>>
    /\ viewParam[1][1] \in DashTokens

\* proxyUrl, with its view parameter set
BuildProxyUrl(originalUrl, proxyBlog, srv) ==
    LET url       == ParseUrl(originalUrl, proxyBlog)
        viewParam == GetParam(url.query, "view")
    IN  [url EXCEPT !.query =
            SetParam(url.query, "view",
                     (IF isViteDevServer(srv) THEN DevServerMark ELSE PreviewServerMark)
                     \o (IF StartsWithDash(viewParam) THEN viewParam[1] ELSE <<>>))]

\* requestProtocol: x-forwarded-proto, or the socket's encrypted flag, and ':'
RequestProtocol(r) ==
    LET scheme == IF r.xfProto # Null THEN r.xfProto
                  ELSE IF r.encrypted THEN "https" ELSE "http"
    IN  IF scheme = "https" THEN "https:" ELSE "http:"

\* requestHost: x-forwarded-host, or the Host header, or undefined
RequestHost(r) == IF r.xfHost # Null THEN r.xfHost ELSE r.host

\* .replaceAll('-DevServer', '').replaceAll('-PreviewServer', '')
StripViewMode(viewParam) ==
    RemoveAll(RemoveAll(viewParam, DevServerMark), PreviewServerMark)

\* a test that knows the proxied host only
IsInternalProxyOnly(redirectUrl, requestHost, pUrl) == redirectUrl.host = pUrl.host

\* (requestHost && redirectUrl.host === requestHost) || redirectUrl.host === proxyUrl.host
IsInternalRedirect(redirectUrl, requestHost, pUrl) ==
    \/ requestHost # Null /\ redirectUrl.host = requestHost
    \/ redirectUrl.host = pUrl.host

\* the value set for the location header
RewriteLocation(value, requestHost, requestProtocol, originalUrl, pUrl) ==
    LET base == IF requestHost # Null
                THEN [protocol |-> requestProtocol, host |-> requestHost,
                      pathname |-> originalUrl.pathname, query |-> originalUrl.query,
                      hash |-> originalUrl.hash]
                ELSE pUrl
        redirectUrl == ParseUrl(value, base)
    IN  IF IsInternalRedirect(redirectUrl, requestHost, pUrl)
        THEN LET moved == IF requestHost # Null
                          THEN [redirectUrl EXCEPT !.host = requestHost,
                                                   !.protocol = requestProtocol]
                          ELSE redirectUrl
                 got == GetParam(moved.query, "view")
                 viewParam == IF got = None THEN None ELSE Some(StripViewMode(got[1]))
                 final == IF viewParam # None /\ viewParam[1] # <<>>
                          THEN [moved EXCEPT !.query = SetParam(moved.query, "view", viewParam[1])]
                          ELSE [moved EXCEPT !.query = DeleteParam(moved.query, "view")]
             IN  PathSearchHash(final)
        ELSE Href(redirectUrl)

\* an allow-list that lets cookies through
AllowedHeadersAndCookie == {"content-type", "x-robots-tag", "date", "location", "set-cookie"}

\* ['content-type', 'x-robots-tag', 'date', 'location']
AllowedHeaders == {"content-type", "x-robots-tag", "date", "location"}

\* res.setHeader(name, value), names in lower case as Node compares them
SetHeader(headers, name, value) ==
    {h \in headers : h[1] # name} \cup {<<name, value>>}

\* headers.get(name) for a header whose value is a text; a header that is
\* not there and an empty one are the same to the code that asks
HeaderValue(headers, name) ==
    IF \E h \in headers : h[1] = name
    THEN (CHOOSE h \in headers : h[1] = name)[2]
    ELSE <<>>

HasHeader(headers, name) == \E h \in headers : h[1] = name

\* proxyResponse.headers.forEach(...): the response headers after the loop;
\* the names of a Headers object are distinct, so the order is immaterial
CopyHeaders(resHeaders, headers, requestHost, requestProtocol, originalUrl, pUrl) ==
    {h \in resHeaders : ~\E g \in headers :
                            g[1] = h[1] /\ (g[1] = "location" \/ g[1] \in AllowedHeaders)}
    \cup {<<h[1], RewriteLocation(h[2], requestHost, requestProtocol, originalUrl, pUrl)>> :
            h \in {g \in headers : g[1] = "location"}}
    \cup {h \in headers : h[1] # "location" /\ h[1] \in AllowedHeaders}

\* contentType?.startsWith('text/html')
IsHtml(contentType) ==
    /\ Len(contentType) >= 2
    /\ contentType[1] = "text/"
    /\ contentType[2] = "html"

\* /^(text\/)|(application\/(.*\+)?(xml|json))/.test(contentType): the first
\* alternative is anchored at the start, the second is searched for anywhere
IsTextLike(contentType) ==
    \/ Len(contentType) >= 1 /\ contentType[1] = "text/"
    \/ \E i \in 1..Len(contentType) - 1 :
          /\ contentType[i] = "application/"
          /\ \/ contentType[i + 1] \in {"xml", "json"}
             \/ \E j \in i + 1..Len(contentType) - 1 :
                   contentType[j] = "+" /\ contentType[j + 1] \in {"xml", "json"}

\* the branch of the handler a response takes
Branch(contentType, requestHost) ==
    IF IsHtml(contentType) THEN "html"
    ELSE IF requestHost # Null /\ contentType # <<>> /\ IsTextLike(contentType) THEN "text"
    ELSE "binary"

\* a byte sequence that is not UTF-8, and what a decoder makes of it
InvalidByte == "<0xFF>"
ReplacementChar == "<U+FFFD>"

\* proxyResponse.text(): UTF-8 decoding
RECURSIVE DecodeText(_)
DecodeText(bytes) ==
    IF bytes = <<>> THEN <<>>
    ELSE <<IF Head(bytes) = InvalidByte THEN ReplacementChar ELSE Head(bytes)>>
         \o DecodeText(Tail(bytes))

\* the script tag of the dev server
DevScriptTag(root, entry) ==
    <<"<script src=", "'", "/">> \o escapeHtml(Relative(root, entry))
    \o <<"'", " type=", "'", "module", "'", "></script>">>

\* errorHtml without the escaping
errorHtmlRaw(reqUrl) ==
    <<"<!DOCTYPE html>...Failed to fetch: ">> \o reqUrl \o <<"</div>...</html>">>

\* utils: errorHtml
errorHtml(reqUrl) ==
    <<"<!DOCTYPE html>...Failed to fetch: ">> \o escapeHtml(reqUrl) \o <<"</div>...</html>">>

\* the line logged when the response has been ended
LogLine(r, rs) ==
    [method |-> r.method, url |-> r.originalUrl,
     statusCode |-> rs.statusCode, statusMessage |-> rs.statusMessage]

\* a ServerResponse nothing has been written to
FreshRes ==
    [statusCode |-> 200, statusMessage |-> Null, headers |-> {}, body |-> <<>>, ended |-> 0]

FreshIo ==
    [fetches |-> 0, warns |-> 0, infos |-> <<>>, nexts |-> 0, transformed |-> None]

NoLoc == [requestHost |-> Null, requestProtocol |-> Null, contentType |-> <<>>, branch |-> Null]

\* no response: fetch has not resolved
NoResponse == [status |-> 0, statusText |-> Null, headers |-> {}, body |-> <<>>]

NoRequest ==
    [method |-> Null, url |-> NoUrl, originalUrl |-> NoUrl,
     host |-> Null, xfHost |-> Null, xfProto |-> Null, encrypted |-> FALSE]

NoFn == [name |-> Null, args |-> Null, ret |-> Null, pc |-> "off"]

\* no activation is suspended, and the one that runs was never suspended
NoParked == [waiting |-> <<>>, resumed |-> FALSE]

----------------------------------------------------------------------------
\* blogger(): the hooks

\* the state after blogger(userOptions), with the files of the project
InitWith(userOptions, files) ==
    /\ phase = "created"
    /\ ctx = createPluginContext(userOptions)
    /\ fs = files
    /\ emitted = <<>>
    /\ server = "none"
    /\ pc = "off"
    /\ req = NoRequest
    /\ proxyUrl = NoUrl
    /\ proxyResponse = NoResponse
    /\ loc = NoLoc
    /\ res = FreshRes
    /\ io = FreshIo
    /\ fn = NoFn
    /\ parked = NoParked

\* config(config): resolves entry and template, or raises this.error; then
\* empties both marker regions of the template file
Config ==
    /\ phase = "created"
    /\ LET entry    == ResolveFile(fs, ctx.options.entry, DEFAULT_ENTRIES)
           template == ResolveFile(fs, ctx.options.template, DEFAULT_TEMPLATES)
       IN  IF entry = NoPath \/ template = NoPath
           THEN /\ phase' = "failed"
                /\ UNCHANGED <<ctx, fs>>
           ELSE /\ phase' = "configured"
                /\ ctx' = [ctx EXCEPT !.entry = entry, !.template = template]
                /\ fs' = [fs EXCEPT ![template] =
                            replaceBloggerPluginHeadComment(
                                replaceBloggerPluginHeadComment(fs[template], <<>>, FALSE),
                                <<>>, TRUE)]
    /\ UNCHANGED <<emitted, server, pc, req, proxyUrl, proxyResponse, loc, res, io, fn, parked>>

\* configResolved(config)
ConfigResolved(config) ==
    /\ phase = "configured"
    /\ ctx' = [ctx EXCEPT !.viteConfig = Some(config)]
    /\ phase' = "resolved"
    /\ UNCHANGED <<fs, emitted, server, pc, req, proxyUrl, proxyResponse, loc, res, io, fn, parked>>

LinkTag(base, value) ==
    <<"<link crossorigin=", "'", "anonymous", "'", " href=", "'">>
    \o escapeHtml(base \o value)
    \o <<"'", " rel=", "'", "stylesheet", "'", "/>">>

BuildScriptTag(base, fileName) ==
    <<"<script crossorigin=", "'", "anonymous", "'", " src=", "'">>
    \o escapeHtml(base \o fileName)
    \o <<"'", " type=", "'", "module", "'", "></script>">>

\* output.viteMetadata?.importedCss.forEach(push a link tag); an output
\* without viteMetadata has no stylesheets
RECURSIVE LinkTags(_, _)
LinkTags(base, importedCss) ==
    IF importedCss = <<>> THEN <<>>
    ELSE LinkTag(base, Head(importedCss)) \o LinkTags(base, Tail(importedCss))

\* htmlTags.join('') of generateBundle
BundleTags(base, output) ==
    LinkTags(base, output.importedCss) \o BuildScriptTag(base, output.fileName)

\* the output the loop of generateBundle stops at, 0 when it runs to the end
FirstEntryChunk(bundle) ==
    LET hits == {i \in 1..Len(bundle) : bundle[i].type = "chunk" /\ bundle[i].isEntry}
    IN  IF hits = {} THEN 0 ELSE CHOOSE i \in hits : \A k \in hits : i <= k

\* generateBundle(_options, bundle), once per output bundle
GenerateBundle(bundle) ==
    /\ phase \in {"resolved", "built"}
    /\ LET i == FirstEntryChunk(bundle)
       IN  emitted' =
             IF i = 0 THEN <<>>
             ELSE << [type     |-> "asset",
                      fileName |-> <<"template.xml">>,
                      source   |-> replaceBloggerPluginHeadComment(
                                      fs[ctx.template],
                                      BundleTags(ctx.viteConfig[1].base, bundle[i]),
                                      TRUE)] >>
    /\ fn' = [name |-> "generateBundle", args |-> bundle, ret |-> Null, pc |-> "done"]
    /\ phase' = "built"
    /\ UNCHANGED <<ctx, fs, server, pc, req, proxyUrl, proxyResponse, loc, res, io, parked>>

\* configureServer(server) / configurePreviewServer(server): the middleware
\* is installed
ConfigureServer(srv) ==
    /\ phase = "resolved"
    /\ server' = srv
    /\ phase' = "serving"
    /\ pc' = "idle"
    /\ UNCHANGED <<ctx, fs, emitted, req, proxyUrl, proxyResponse, loc, res, io, fn, parked>>

----------------------------------------------------------------------------
\* useServerMiddleware: the request handler, one action per stretch of code
\* between two suspension points

\* res.end(body) and the log line after it
EndAndLog(rs, body) ==
    LET ended == [rs EXCEPT !.body = body, !.ended = @ + 1]
    IN  /\ res' = ended
        /\ io' = [io EXCEPT !.infos = Append(@, LogLine(req, ended))]
        /\ pc' = "sent"

\* the middleware is called with a request: without a URL it goes to next();
\* otherwise the proxied request is built and fetch is called.  Every call has
\* a request, a response and locals of its own.
Start(r) ==
    /\ req' = r
    /\ res' = FreshRes
    /\ loc' = NoLoc
    /\ proxyResponse' = NoResponse
    /\ IF r.url = NoUrl \/ r.originalUrl = NoUrl
       THEN /\ pc' = "passed"
            /\ proxyUrl' = NoUrl
            /\ io' = [FreshIo EXCEPT !.nexts = 1]
       ELSE /\ pc' = "fetching"
            /\ proxyUrl' = BuildProxyUrl(r.originalUrl, ctx.options.proxyBlog, server)
            /\ io' = [FreshIo EXCEPT !.fetches = 1]

\* the first request arrives; the variables follow its activation of the
\* handler from the arrival to the end of the response
Receive(r) ==
    /\ phase = "serving"
    /\ pc = "idle"
    /\ Start(r)
    /\ UNCHANGED <<phase, ctx, fs, emitted, server, fn, parked>>

\* fetch rejects: the catch returns null, and the 500 page is sent
FetchReject ==
    /\ pc = "fetching"
    /\ proxyResponse' = NoResponse
    /\ LET rs    == [res EXCEPT !.statusCode = 500,
                                !.statusMessage = "Internal Server Error",
                                !.headers = SetHeader(@, "content-type", <<"text/", "html">>),
                                !.body = errorHtml(Href(proxyUrl)),
                                !.ended = @ + 1]
       IN  /\ res' = rs
           /\ io' = [io EXCEPT !.warns = @ + 1, !.infos = Append(@, LogLine(req, rs))]
    /\ pc' = "sent"
    /\ UNCHANGED <<phase, ctx, fs, emitted, server, req, proxyUrl, loc, fn, parked>>

\* fetch resolves: status and headers are copied, and the body is asked for
FetchResolve(response) ==
    /\ pc = "fetching"
    /\ proxyResponse' = response
    /\ LET requestProtocol == RequestProtocol(req)
           requestHost     == RequestHost(req)
           contentType     == HeaderValue(response.headers, "content-type")
           branch          == Branch(contentType, requestHost)
       IN  /\ loc' = [requestHost |-> requestHost, requestProtocol |-> requestProtocol,
                      contentType |-> contentType, branch |-> branch]
           /\ res' = [res EXCEPT !.statusCode = response.status,
                                 !.statusMessage = response.statusText,
                                 !.headers = CopyHeaders(@, response.headers, requestHost,
                                                         requestProtocol, req.originalUrl,
                                                         proxyUrl)]
           /\ pc' = IF branch = "binary" THEN "arrayBuffer" ELSE "text"
    /\ UNCHANGED <<phase, ctx, fs, emitted, server, req, proxyUrl, io, fn, parked>>

\* htmlTemplateContent after the host rewriting
HtmlTemplateContent ==
    IF loc.requestHost # Null
    THEN replaceHost(DecodeText(proxyResponse.body), proxyUrl.host,
                     loc.requestHost, loc.requestProtocol)
    ELSE DecodeText(proxyResponse.body)

\* text/html on a dev server: the script tag goes between the markers and the
\* document is handed to server.transformIndexHtml
BodyHtmlDev ==
    /\ pc = "text"
    /\ loc.branch = "html"
    /\ isViteDevServer(server)
    /\ io' = [io EXCEPT !.transformed =
                Some(replaceBloggerPluginHeadComment(
                        HtmlTemplateContent,
                        DevScriptTag(ctx.viteConfig[1].root, ctx.entry),
                        FALSE))]
    /\ pc' = "transform"
    /\ UNCHANGED <<phase, ctx, fs, emitted, server, req, proxyUrl, proxyResponse, loc, res, fn, parked>>

\* the tag Vite puts in front of the document
ViteClientTag == "<script type=\"module\" src=\"/@vite/client\"></script>"

\* what server.transformIndexHtml may return for a document
Transforms(html) == {html, <<ViteClientTag>> \o html}

\* server.transformIndexHtml resolves
TransformDone ==
    /\ pc = "transform"
    /\ \E template \in Transforms(io.transformed[1]) : EndAndLog(res, template)
    /\ UNCHANGED <<phase, ctx, fs, emitted, server, req, proxyUrl, proxyResponse, loc, fn, parked>>

\* text/html on a preview server: the tags of the built template.xml go
\* between the markers; fs.readFileSync throws when the file is not there
BodyHtmlPreview ==
    /\ pc = "text"
    /\ loc.branch = "html"
    /\ ~isViteDevServer(server)
    /\ LET file == OutTemplate(ctx.viteConfig[1].outDir)
       IN  IF file \notin DOMAIN fs
           THEN /\ pc' = "threw"
                /\ UNCHANGED <<res, io>>
           ELSE LET htmlTagsStr == getBloggerPluginHeadComment(fs[file], TRUE)
                IN  EndAndLog(res, replaceBloggerPluginHeadComment(
                                      HtmlTemplateContent,
                                      IF htmlTagsStr = None THEN <<>> ELSE htmlTagsStr[1],
                                      FALSE))
    /\ UNCHANGED <<phase, ctx, fs, emitted, server, req, proxyUrl, proxyResponse, loc, fn, parked>>

\* a text-like body with the request host known: the hosts are rewritten
BodyTextLike ==
    /\ pc = "text"
    /\ loc.branch = "text"
    /\ EndAndLog(res, replaceHost(DecodeText(proxyResponse.body), proxyUrl.host,
                                  loc.requestHost, loc.requestProtocol))
    /\ UNCHANGED <<phase, ctx, fs, emitted, server, req, proxyUrl, proxyResponse, loc, fn, parked>>

\* new Uint8Array(await proxyResponse.arrayBuffer())
BodyAsBytes(body) == body

\* anything else: the bytes are passed on
BodyBytes ==
    /\ pc = "arrayBuffer"
    /\ EndAndLog(res, BodyAsBytes(proxyResponse.body))
    /\ UNCHANGED <<phase, ctx, fs, emitted, server, req, proxyUrl, proxyResponse, loc, fn, parked>>

----------------------------------------------------------------------------
\* The build: config, configResolved, generateBundle

OriginHost == "blog.example"

\* new URL(options.proxyBlog)
ProxyBlog ==
    [protocol |-> "https:", host |-> OriginHost, pathname |-> "/", query |-> <<>>, hash |-> <<>>]

Options(entry) == [entry |-> entry, template |-> NoPath, proxyBlog |-> ProxyBlog]

MainEntry   == <<"src/", "main.ts">>
SrcTemplate == Resolve(Root, <<"src/", "template.xml">>)
OutDir      == <<"/proj/", "dist/">>

\* the head of a template: a bare region for the dev and preview servers, a
\* wrapped region for the build, either of them possibly missing or stale
BareRegion(inner)    == BeginMark(FALSE) \o inner \o EndMark(FALSE)
WrappedRegion(inner) == BeginMark(TRUE) \o inner \o EndMark(TRUE)
TemplateSources ==
    {<<"<head>">> \o bare \o <<"<b:else/>">> \o wrapped \o <<"</head>">> :
        bare    \in {<<>>} \cup {BareRegion(inner) : inner \in MarkerPads},
        wrapped \in {<<>>} \cup {WrappedRegion(inner) : inner \in MarkerPads}}

ProjectFiles(entry, source) ==
    (Resolve(Root, entry) :> <<>>) @@ (SrcTemplate :> source)

ViteConfigs ==
    {[root |-> Root, base |-> base, outDir |-> OutDir] :
        base \in {<<"/">>, <<"https:", "//", "cdn.example", "/">>}}

\* what a bundle may hold
Outputs ==
    {[type |-> "asset", isEntry |-> FALSE, fileName |-> <<"assets/", "index.css">>,
      importedCss |-> <<>>],
     [type |-> "chunk", isEntry |-> FALSE, fileName |-> <<"assets/", "vendor.js">>,
      importedCss |-> <<>>],
     [type |-> "chunk", isEntry |-> TRUE, fileName |-> <<"assets/", "index.js">>,
      importedCss |-> << <<"assets/", "index.css">> >>],
     [type |-> "chunk", isEntry |-> TRUE, fileName |-> <<"assets/", "a", "&", "b.js">>,
      importedCss |-> << <<"assets/", "a.css">>, <<"assets/", "b.css">> >>],
     [type |-> "chunk", isEntry |-> TRUE, fileName |-> <<"assets/", "c", "$", "$", ".js">>,
      importedCss |-> <<>>]}

\* a bundle is keyed by file name: its outputs are distinct
Bundles ==
    {b \in SeqsUpTo(Outputs, MaxBundle) : \A i, j \in 1..Len(b) : b[i] = b[j] => i = j}

InitBuild ==
    \E source \in TemplateSources :
        \/ InitWith(Options(NoPath), ProjectFiles(MainEntry, source))
        \/ InitWith(Options(<<"src/", "missing.ts">>), ProjectFiles(MainEntry, source))

NextBuild ==
    \/ Config
    \/ \E config \in ViteConfigs : ConfigResolved(config)
    \/ \E bundle \in Bundles : GenerateBundle(bundle)

SpecBuild == InitBuild /\ [][NextBuild]_vars

\* C8: build-time injection.  generateBundle processes the first entry chunk
\* only: exactly one asset template.xml is emitted, whose wrapped marker
\* region holds one stylesheet link per stylesheet the chunk imports and then
\* one module script for the chunk, every URL being escapeHtml(base + file
\* name); with no entry chunk nothing is emitted and nothing is raised.
C8_BuildInjectsFirstEntry ==
    (fn.name = "generateBundle" /\ fn.pc = "done")
    => LET bundle  == fn.args
           entries == {i \in 1..Len(bundle) : bundle[i].type = "chunk" /\ bundle[i].isEntry}
       IN  IF entries = {}
           THEN emitted = <<>> /\ phase = "built"
           ELSE LET first == CHOOSE i \in entries : \A k \in entries : i <= k
                IN  /\ Len(emitted) = 1
                    /\ emitted[1].type = "asset"
                    /\ emitted[1].fileName = <<"template.xml">>
                    /\ MarkerMatch(fs[ctx.template], TRUE).found
                          => getBloggerPluginHeadComment(emitted[1].source, TRUE)
                             = LinkTags(ctx.viteConfig[1].base, bundle[first].importedCss)
                               \o BuildScriptTag(ctx.viteConfig[1].base, bundle[first].fileName)

----------------------------------------------------------------------------
\* The servers: requests and responses

DevHost == "localhost:5173"
ExtHost == "other.example"

Request(method, ref, host, xfProto) ==
    [method |-> method, url |-> ref, originalUrl |-> ref,
     host |-> host, xfHost |-> Null, xfProto |-> xfProto, encrypted |-> FALSE]

Response(status, statusText, headers, body) ==
    [status |-> status, statusText |-> statusText, headers |-> headers, body |-> body]

\* the handler's actions over a set of requests and the set of responses the
\* origin may give to the request in flight
Serve(requests, responses) ==
    \/ \E r \in requests : Receive(r)
    \/ FetchReject
    \/ \E response \in responses : FetchResolve(response)
    \/ BodyHtmlDev
    \/ TransformDone
    \/ BodyHtmlPreview
    \/ BodyTextLike
    \/ BodyBytes

Startup ==
    \/ Config
    \/ \E config \in ViteConfigs : ConfigResolved(config)
    \/ \E srv \in {"dev", "preview"} : ConfigureServer(srv)

\* a template.xml as an earlier build left it in outDir
BuiltTemplate ==
    <<"<head>">> \o BareRegion(<<>>) \o <<"<b:else/>">>
    \o WrappedRegion(BuildScriptTag(<<"/">>, <<"assets/", "index.js">>)) \o <<"</head>">>

\* the project with or without the output of an earlier build
ServeFiles(entry, built) ==
    IF built
    THEN ProjectFiles(entry, BuiltTemplate) @@ (OutTemplate(OutDir) :> BuiltTemplate)
    ELSE ProjectFiles(entry, BuiltTemplate)

\* ---- Spec: the responses

FooRef == Ref("path", Null, Null, "/foo", << <<"q", <<"1">>>> >>, <<>>)

GenRequests ==
    {Request("GET", FooRef, host, xfProto) : host \in {DevHost, Null}, xfProto \in {Null, "https"}}
    \cup {Request("POST", FooRef, DevHost, Null),
          Request("GET", NoUrl, DevHost, Null)}

CtHtml      == <<"text/", "html", "; charset=UTF-8">>
CtPlain     == <<"text/", "plain">>
CtJson      == <<"application/", "json">>
CtAtom      == <<"application/", "atom", "+", "xml", "; charset=UTF-8">>
CtPng       == <<"image/", "png">>
CtSvg       == <<"image/", "svg", "+", "xml">>
CtOctet     == <<"application/", "octet-stream">>
CtMultipart == <<"multipart/", "related; type=", "application/", "xml">>
ContentTypes == {CtHtml, CtPlain, CtJson, CtAtom, CtPng, CtSvg, CtOctet, CtMultipart}

OptionalHeaders ==
    {<<"x-robots-tag", <<"noindex">>>>, <<"date", <<"Thu, 05 Nov 2026">>>>,
     <<"set-cookie", <<"sid=1">>>>, <<"content-length", <<"42">>>>}

MovedRef == Ref("absolute", "https:", OriginHost, "/moved", <<>>, <<>>)

Bodies ==
    {<<"x">>,
     <<"https:", "//", OriginHost, "/p", InvalidByte>>,
     <<"<head>", BeginC, "stale", EndC, "</head>", "//", OriginHost, "/p">>,
     <<"<head>", "</head>", InvalidByte>>}

GenResponses(pUrl) ==
    {Response(200, "OK", hs \cup {<<"content-type", ct>>}, <<"https:", "//", OriginHost, "/p">>) :
        hs \in SUBSET OptionalHeaders, ct \in {CtHtml, CtPng}}
    \cup {Response(302, "Found", hs \cup {<<"content-type", CtPng>>, <<"location", MovedRef>>}, <<"x">>) :
        hs \in SUBSET OptionalHeaders}
    \cup {Response(200, "OK", {<<"content-type", ct>>}, body) :
        ct \in ContentTypes, body \in Bodies}
    \cup {Response(200, "OK", {}, body) : body \in Bodies}

DollarEntry == <<"src/", "$", "$", "app.ts">>

Init ==
    \E built \in BOOLEAN :
        \/ InitWith(Options(NoPath), ServeFiles(MainEntry, built))
        \/ InitWith(Options(DollarEntry), ServeFiles(DollarEntry, built))

\* what the origin may answer to the request in flight
GenAnswers == IF pc = "fetching" THEN GenResponses(proxyUrl) ELSE {}

Next == Startup \/ Serve(GenRequests, GenAnswers)

Spec == Init /\ [][Next]_vars

\* ---- SpecRedirect: views and redirects

ViewTokens == {"-", "-Dev", "-Preview", "Server", "bar"}
Views == SeqsUpTo(ViewTokens, MaxViewLen)

ViewRequests ==
    {Request("GET", Ref(form, Null, IF form = "netpath" THEN ExtHost ELSE Null, "/foo", query, <<>>),
             host, Null) :
        form \in {"path", "netpath"},
        query \in {<<>>} \cup {<< <<"view", v>> >> : v \in Views},
        host \in {DevHost, Null}}

\* redirects of an origin that hands the view parameter it was sent back
RedirectLocations(pUrl) ==
    LET sent == <<"view", GetParam(pUrl.query, "view")[1]>>
    IN  {Ref("absolute", "https:", pUrl.host, "/moved", <<sent>>, <<"#", "top">>),
         Ref("path", Null, Null, "/moved", << <<"m", <<"1">>>>, sent >>, <<>>),
         Ref("absolute", "http:", DevHost, "/moved", << sent, <<"m", <<"1">>>> >>, <<>>),
         Ref("absolute", "https:", "third.example", "/login", <<sent>>, <<>>)}

RedirectResponses(pUrl) ==
    {Response(302, "Found", {<<"location", l>>}, <<"x">>) : l \in RedirectLocations(pUrl)}
    \cup {Response(302, "Found",
                   {<<"location", Ref("path", Null, Null, "/moved", <<>>, <<>>)>>,
                    <<"content-type", ct>>}, <<"x">>) : ct \in {CtHtml, CtPlain}}

InitRedirect == InitWith(Options(NoPath), ServeFiles(MainEntry, TRUE))

RedirectAnswers == IF pc = "fetching" THEN RedirectResponses(proxyUrl) ELSE {}

NextRedirect == Startup \/ Serve(ViewRequests, RedirectAnswers)

SpecRedirect == InitRedirect /\ [][NextRedirect]_vars

----------------------------------------------------------------------------
\* The utilities called on their own

\* the other variables while a utility is called on its own
NoPlugin ==
    /\ phase = "off"
    /\ ctx = None
    /\ fs = <<>>
    /\ emitted = <<>>
    /\ server = "none"
    /\ pc = "off"
    /\ req = NoRequest
    /\ proxyUrl = NoUrl
    /\ proxyResponse = NoResponse
    /\ loc = NoLoc
    /\ res = FreshRes
    /\ io = FreshIo
    /\ parked = NoParked

UNCHANGED_Plugin ==
    UNCHANGED <<phase, ctx, fs, emitted, server, pc, req, proxyUrl, proxyResponse, loc, res, io, parked>>

\* documents with one marker pair of one dialect, and documents with none
MarkerInputs ==
    {[dialect |-> b, text |-> pre \o BeginMark(b) \o inner \o EndMark(b) \o post] :
        b \in BOOLEAN, pre \in MarkerPads, inner \in MarkerPads, post \in MarkerPads}
    \cup {[dialect |-> b, text |-> pre] : b \in BOOLEAN, pre \in MarkerPads}

ReplTokens == {"t", "$", "&", "'", EndC}
Replacements == SeqsUpTo(ReplTokens, MaxReplLen)

InitMarker ==
    /\ NoPlugin
    /\ \E input \in MarkerInputs, replacement \in Replacements :
          fn = [name |-> "roundTrip",
                args |-> [input |-> input.text, replacement |-> replacement,
                          bcomment |-> input.dialect],
                ret  |-> [replaced |-> <<>>, got |-> None],
                pc   |-> "call"]

CallReplace ==
    /\ fn.name = "roundTrip" /\ fn.pc = "call"
    /\ fn' = [fn EXCEPT !.ret.replaced =
                replaceBloggerPluginHeadComment(fn.args.input, fn.args.replacement,
                                                fn.args.bcomment),
                        !.pc = "replaced"]
    /\ UNCHANGED_Plugin

CallGet ==
    /\ fn.name = "roundTrip" /\ fn.pc = "replaced"
    /\ fn' = [fn EXCEPT !.ret.got = getBloggerPluginHeadComment(fn.ret.replaced, fn.args.bcomment),
                        !.pc = "got"]
    /\ UNCHANGED_Plugin

NextMarker == CallReplace \/ CallGet

SpecMarker == InitMarker /\ [][NextMarker]_vars

OldHost == "old.example"
NewHost == "new.example"

HostTokens == {"http:", "https:", "//", "\\/\\/", OldHost, "/a"}
HostInputs == SeqsUpTo(HostTokens, MaxHostInputLen)

InitHost ==
    /\ NoPlugin
    /\ \E input \in HostInputs, newProtocol \in Protocols \cup {Null} :
          fn = [name |-> "replaceHost",
                args |-> [input |-> input, oldHost |-> OldHost, newHost |-> NewHost,
                          newProtocol |-> newProtocol],
                ret  |-> Null,
                pc   |-> "call"]

CallReplaceHost ==
    /\ fn.name = "replaceHost" /\ fn.pc = "call"
    /\ fn' = [fn EXCEPT !.ret = replaceHost(fn.args.input, fn.args.oldHost,
                                            fn.args.newHost, fn.args.newProtocol),
                        !.pc = "done"]
    /\ UNCHANGED_Plugin

NextHost == CallReplaceHost

SpecHost == InitHost /\ [][NextHost]_vars

----------------------------------------------------------------------------
\* C9: marker round trip.  For every input holding exactly one marker pair of
\* a dialect and every replacement c', getBloggerPluginHeadComment of
\* replaceBloggerPluginHeadComment(input, c') is c'.  Stated here for the
\* replacements that hold no end marker, the only ones a lazy match can give
\* back whole.

Occurrences(s, pat) == Cardinality({i \in 1..Len(s) : MatchAt(s, pat, i)})

ExactlyOnePair(input, bcomment) ==
    /\ Occurrences(input, BeginMark(bcomment)) = 1
    /\ Occurrences(input, EndMark(bcomment)) = 1
    /\ MarkerMatch(input, bcomment).found

C9_RoundTrip ==
    (/\ fn.name = "roundTrip"
     /\ fn.pc = "got"
     /\ ExactlyOnePair(fn.args.input, fn.args.bcomment)
     /\ ~Contains(fn.args.replacement, <<EndC>>))
    => fn.ret.got = Some(fn.args.replacement)

----------------------------------------------------------------------------
\* C10: replaceHost on a protocol-relative reference.

\* the host of a match of the pattern is at index i
IsHostMatch(input, i) ==
    i >= 2 /\ i <= Len(input) /\ input[i] = OldHost /\ input[i - 1] \in Slashes
\* ... and the match took a protocol
HasProtocol(input, i) == i >= 3 /\ input[i - 2] \in Protocols

\* C10 as claimed: with a new protocol given, every rewritten host, also one
\* that had no protocol in front, comes out as newProtocol + slashes + newHost
C10_Original ==
    (fn.name = "replaceHost" /\ fn.pc = "done" /\ fn.args.newProtocol # Null)
    => \A j \in 1..Len(fn.ret) :
          fn.ret[j] = NewHost => j >= 3 /\ fn.ret[j - 2] = fn.args.newProtocol

\* C10 as amended: a reference without a protocol stays without one.  Every
\* match keeps its slashes and takes the new host, a protocol is never added
\* (the text keeps its length), and a protocol that was matched is replaced by
\* the new protocol when one is given;
\* replaceHost("//old.example/a", "old.example", "new.example", "https:") is
\* "//new.example/a".
C10_ProtocolRelativeKept ==
    (fn.name = "replaceHost" /\ fn.pc = "done")
    => LET input == fn.args.input
           out   == fn.ret
           np    == fn.args.newProtocol
       IN  /\ Len(out) = Len(input)
           /\ \A i \in 1..Len(input) :
                 IsHostMatch(input, i) =>
                    /\ out[i] = NewHost
                    /\ out[i - 1] = input[i - 1]
                    /\ HasProtocol(input, i) =>
                          out[i - 2] = IF np # Null THEN np ELSE input[i - 2]
           /\ \A i \in 1..Len(input) :
                 (/\ ~IsHostMatch(input, i)
                  /\ ~IsHostMatch(input, i + 1)
                  /\ ~(IsHostMatch(input, i + 2) /\ HasProtocol(input, i + 2)))
                 => out[i] = input[i]
           /\ (input = <<"//", OldHost, "/a">> /\ np = "https:")
                 => out = <<"//", NewHost, "/a">>

C10_Witness ==
    /\ fn.name = "replaceHost" /\ fn.pc = "done"
    /\ fn.args.input = <<"//", OldHost, "/a">>
    /\ fn.args.newProtocol = "https:"
    /\ fn.ret = <<"//", NewHost, "/a">>

----------------------------------------------------------------------------
\* What the claims about the request handler speak of

\* the origin has answered and the handler has set status and headers
Answered ==
    /\ proxyResponse # NoResponse
    /\ pc \in {"text", "arrayBuffer", "transform", "sent", "threw"}

\* the Location header of the origin's response, and the one sent on
OriginLocation == (CHOOSE h \in proxyResponse.headers : h[1] = "location")[2]
SentLocation   == HeaderValue(res.headers, "location")

\* the developer-facing host: x-forwarded-host, else the Host header
DevFacingHost == IF req.xfHost # Null THEN req.xfHost ELSE req.host

\* the host a Location resolves to: its own, or for a path the host of the
\* base, which is the developer-facing one when known, else the proxied one
LocationTargetHost(l) ==
    IF l.form # "path" THEN l.host
    ELSE IF DevFacingHost # Null THEN DevFacingHost ELSE proxyUrl.host

LocationIsInternal(l) ==
    \/ DevFacingHost # Null /\ LocationTargetHost(l) = DevFacingHost
    \/ LocationTargetHost(l) = proxyUrl.host

KnownHosts == {OriginHost, DevHost, ExtHost, "third.example"}

\* the value of the view parameter spelled out in a URL string
ViewOf(text) ==
    LET hits == {i \in 2..Len(text) - 1 :
                    text[i] = "view" /\ text[i + 1] = "=" /\ text[i - 1] \in {"?", "&"}}
    IN  IF hits = {} THEN None
        ELSE LET i     == CHOOSE h \in hits : \A k \in hits : h <= k
                 stops == {j \in i + 2..Len(text) : text[j] \in {"&", "#"}}
                 to    == IF stops = {} THEN Len(text)
                          ELSE (CHOOSE j \in stops : \A k \in stops : j <= k) - 1
             IN  Some(SubSeq(text, i + 2, to))

InboundView == GetParam(req.originalUrl.query, "view")

\* the inbound view value begins with a dash
DashFirst(v) == v # None /\ v[1] # <<>> /\ v[1][1] \in {"-", "-Dev", "-Preview"}

HasMark(text) ==
    Contains(text, <<"-Dev", "Server">>) \/ Contains(text, <<"-Preview", "Server">>)

----------------------------------------------------------------------------
\* C2: the outbound request.  For every inbound request with a URL the
\* proxied URL has the origin of proxyBlog and the path and query of the
\* request, with exactly one view parameter: the mode marker, followed by the
\* inbound view value iff that began with a dash.
C2_OutboundTargetsProxyBlog ==
    (pc \notin {"off", "idle", "passed"} /\ req.url # NoUrl)
    => /\ proxyUrl.protocol = ctx.options.proxyBlog.protocol
       /\ proxyUrl.host = ctx.options.proxyBlog.host
       /\ proxyUrl.pathname = req.originalUrl.pathname
       /\ DeleteParam(proxyUrl.query, "view") = DeleteParam(req.originalUrl.query, "view")
       /\ Cardinality({i \in 1..Len(proxyUrl.query) : proxyUrl.query[i][1] = "view"}) = 1
       /\ GetParam(proxyUrl.query, "view")
          = Some((IF server = "dev" THEN <<"-Dev", "Server">> ELSE <<"-Preview", "Server">>)
                 \o (IF DashFirst(InboundView) THEN InboundView[1] ELSE <<>>))

----------------------------------------------------------------------------
\* C3: redirect rewriting.  When the host a Location resolves to is the
\* developer-facing host or the host of the proxied URL, the Location sent on
\* is path + query + fragment, without scheme and host; for any other host it
\* is the absolute URL, host, path, query and fragment as the origin gave them.
C3_RedirectRewriting ==
    (Answered /\ HasHeader(proxyResponse.headers, "location"))
    => LET l == OriginLocation
       IN  IF LocationIsInternal(l)
           THEN /\ SentLocation # <<>>
                /\ SentLocation[1] = l.pathname
                /\ \A i \in 1..Len(SentLocation) :
                      SentLocation[i] \notin Protocols \cup Slashes \cup KnownHosts
           ELSE /\ Len(SentLocation) >= 4
                /\ SubSeq(SentLocation, 1, 4)
                   = <<l.protocol, "//", LocationTargetHost(l), l.pathname>>
                /\ SubSeq(SentLocation, 5, Len(SentLocation)) = Search(l.query) \o l.hash

\* a redirect to the developer's own host comes back relative, one to a third
\* host absolute
C3_Witness ==
    /\ Answered
    /\ HasHeader(proxyResponse.headers, "location")
    /\ OriginLocation.host = DevHost
    /\ req.host = DevHost
    /\ proxyUrl.host = OriginHost
    /\ SentLocation[1] = "/moved"

----------------------------------------------------------------------------
\* C4: the mode suffix is undone on an internal redirect that carries the
\* view value the proxy sent out.

C4_Case ==
    /\ Answered
    /\ HasHeader(proxyResponse.headers, "location")
    /\ LocationIsInternal(OriginLocation)
    /\ GetParam(OriginLocation.query, "view") = GetParam(proxyUrl.query, "view")

\* C4 as claimed, for every inbound view value v, absent included: the
\* Location sent on carries view = v or no view parameter, and never a mode
\* suffix
C4_Original ==
    C4_Case
    => /\ ViewOf(SentLocation) = InboundView \/ ViewOf(SentLocation) = None
       /\ ~HasMark(SentLocation)

\* where the round trip does hold: an inbound view value that holds neither
\* -DevServer nor -PreviewServer comes back as v when v begins with a dash
\* and as no view parameter otherwise (v absent, empty or without the dash)
SuffixUndoneOnPlainViews ==
    (C4_Case /\ (InboundView = None \/ ~HasMark(InboundView[1])))
    => /\ ViewOf(SentLocation) = IF DashFirst(InboundView) THEN InboundView ELSE None
       /\ ~HasMark(SentLocation)

----------------------------------------------------------------------------
\* C5: the header allow-list.  Once the origin has answered, the response
\* holds no header but content-type, x-robots-tag, date and location; each of
\* the first three that the origin sent is there with the origin's value;
\* location is there, rewritten, iff the origin sent one; nothing else of the
\* origin's headers is there, whatever the content type.
C5_HeaderAllowList ==
    Answered
    => /\ \A h \in res.headers : h[1] \in {"content-type", "x-robots-tag", "date", "location"}
       /\ \A h \in res.headers : h[1] # "location" => h \in proxyResponse.headers
       /\ \A g \in proxyResponse.headers :
             g[1] \in {"content-type", "x-robots-tag", "date"} => g \in res.headers
       /\ HasHeader(res.headers, "location") <=> HasHeader(proxyResponse.headers, "location")
       /\ HasHeader(res.headers, "location") => SentLocation = <<"/moved">>

C5_Witness ==
    /\ Answered
    /\ pc = "sent"
    /\ {"set-cookie", "content-length", "date", "x-robots-tag", "location"}
          \subseteq {g[1] : g \in proxyResponse.headers}
    /\ {h[1] : h \in res.headers} = {"content-type", "x-robots-tag", "date", "location"}

----------------------------------------------------------------------------
\* C6: a rejected fetch.  The handler has called fetch once, the failure ends
\* in a response and not in an exception: status 500, Content-Type text/html,
\* and a body that contains the HTML-escaped URL of the request that failed
\* (proxyUrl.href).
C6_FetchFailureIs500 ==
    (proxyResponse = NoResponse /\ pc \notin {"off", "idle", "passed", "fetching"})
    => /\ pc = "sent"
       /\ io.fetches = 1
       /\ res.ended = 1
       /\ res.statusCode = 500
       /\ HeaderValue(res.headers, "content-type") = <<"text/", "html">>
       /\ Contains(res.body,
                   <<proxyUrl.protocol, "//", proxyUrl.host, proxyUrl.pathname, "?",
                     "q", "=", "1", "&", "amp;", "view", "=">>
                   \o GetParam(proxyUrl.query, "view")[1])
       /\ \A i \in 1..Len(res.body) :
             res.body[i] = "&" => i < Len(res.body) /\ res.body[i + 1] = "amp;"

C6_Witness ==
    /\ proxyResponse = NoResponse
    /\ pc = "sent"
    /\ res.statusCode = 500
    /\ io.warns = 1
    /\ Contains(res.body, <<"&", "amp;", "view", "=", "-Dev", "Server">>)

----------------------------------------------------------------------------
\* C7: binary pass-through.  A response whose content type is not text/html*,
\* not text/*, not application/(*+)?xml and not application/(*+)?json is never
\* read as text, and the body sent is the origin's, byte for byte, with or
\* without a known request host.

\* the content types the claim excepts, each pattern read from the start of
\* the content type
ClaimedTextual(contentType) ==
    /\ contentType # <<>>
    /\ \/ contentType[1] = "text/"
       \/ /\ contentType[1] = "application/"
          /\ Len(contentType) >= 2
          /\ \/ contentType[2] \in {"xml", "json"}
             \/ \E j \in 2..Len(contentType) - 1 :
                   contentType[j] = "+" /\ contentType[j + 1] \in {"xml", "json"}

PassedThrough ==
    /\ pc \in {"arrayBuffer", "sent"}
    /\ io.transformed = None
    /\ pc = "sent" => res.body = proxyResponse.body /\ res.ended = 1

C7_BinaryPassThrough ==
    (/\ Answered
     /\ ~ClaimedTextual(HeaderValue(proxyResponse.headers, "content-type")))
    => PassedThrough

\* where the pass-through does hold: no content type, image/png,
\* image/svg+xml, application/octet-stream
PassThroughOfImagesAndOctets ==
    (/\ Answered
     /\ HeaderValue(proxyResponse.headers, "content-type") \in {<<>>, CtPng, CtSvg, CtOctet})
    => PassedThrough

----------------------------------------------------------------------------
\* C1: dev-mode injection.  On a dev server, for a text/html response whose
\* body holds a bare marker pair, the document handed to transformIndexHtml is
\* the (host-rewritten) body with the span between the first begin marker and
\* the end marker after it replaced by one script tag whose src is "/" and the
\* HTML-escaped entry path relative to the root; the markers stay and nothing
\* else is added.
C1_DevInjection ==
    (/\ Answered
     /\ server = "dev"
     /\ HeaderValue(proxyResponse.headers, "content-type") = CtHtml
     /\ MarkerMatch(proxyResponse.body, FALSE).found
     /\ pc \in {"transform", "sent"})
    => LET content == HtmlTemplateContent
           m       == MarkerMatch(content, FALSE)
       IN  io.transformed =
             Some(SubSeq(content, 1, m.from - 1)
                  \o <<BeginC, "<script src=", "'", "/">>
                  \o escapeHtml(Relative(ctx.viteConfig[1].root, ctx.entry))
                  \o <<"'", " type=", "'", "module", "'", "></script>", EndC>>
                  \o SubSeq(content, m.to + 1, Len(content)))

----------------------------------------------------------------------------
\* Progress of the handler.  Whether a request arrives is up to the client;
\* once one has, fetch settles one way or the other, the body reads and
\* transformIndexHtml settle, and the event loop runs the continuation that
\* waits for them.

\* await fetch(proxyRequest).catch(...) settles
FetchSettles == FetchReject \/ \E response \in GenAnswers : FetchResolve(response)

\* await proxyResponse.text() / arrayBuffer() / transformIndexHtml(...) settles
BodySettles == BodyHtmlDev \/ TransformDone \/ BodyHtmlPreview \/ BodyTextLike \/ BodyBytes

SpecLive == Init /\ [][Next]_vars /\ WF_vars(FetchSettles) /\ WF_vars(BodySettles)

\* the response has been ended once and one line has been logged after it,
\* with the method, the original URL and the status and status text sent
SentAndLogged ==
    /\ pc = "sent"
    /\ res.ended = 1
    /\ io.infos = <<[method |-> req.method, url |-> req.originalUrl,
                     statusCode |-> res.statusCode,
                     statusMessage |-> res.statusMessage]>>

\* C11: every request with a URL, once the proxied request is on its way, is
\* eventually answered: the response is ended exactly once and exactly one
\* line is logged after it, whether the fetch fails or succeeds and whatever
\* the branch its content type selects.
C11_EverySentAndLogged == (pc = "fetching") ~> SentAndLogged

\* where the handler does arrive: every path but the one on which it throws
SentUnlessThrown == (pc = "fetching") ~> (SentAndLogged \/ pc = "threw")

\* the handler is left by an exception only from the text/html branch of a
\* preview server with no template.xml in the output directory
ThrownOnlyWithoutBuiltTemplate ==
    pc = "threw"
    => /\ server = "preview"
       /\ IsHtml(HeaderValue(proxyResponse.headers, "content-type"))
       /\ OutTemplate(ctx.viteConfig[1].outDir) \notin DOMAIN fs
       /\ res.ended = 0
       /\ io.infos = <<>>

----------------------------------------------------------------------------
\* Requests handled concurrently.  JavaScript runs one activation of the
\* handler at a time; at an await the activation is suspended with its
\* arguments and locals, and the event loop starts the handler for a request
\* that has arrived or resumes an activation that was suspended.  The
\* variables pc .. io are those of the activation that runs.

\* how many activations may be suspended at a time
MaxParked == 1

\* req, res and the consts declared inside the async callback
Closure ==
    [pc |-> pc, req |-> req, proxyUrl |-> proxyUrl, proxyResponse |-> proxyResponse,
     loc |-> loc, res |-> res, io |-> io]

\* the activation that runs waits at an await
Suspended == pc \in {"fetching", "text", "arrayBuffer", "transform"}

\* the activations that wait once the one that runs has given way: it joins
\* them if it waits at an await, and is gone if it has returned or thrown
SetAside == IF Suspended THEN Append(parked.waiting, Closure) ELSE parked.waiting

\* a handler whose proxyUrl is one variable for all its activations
RestoreSharingProxyUrl(c) ==
    /\ pc' = c.pc
    /\ req' = c.req
    /\ proxyUrl' = proxyUrl
    /\ proxyResponse' = c.proxyResponse
    /\ loc' = c.loc
    /\ res' = c.res
    /\ io' = c.io

\* an activation goes on with the arguments and locals it was suspended with
Restore(c) ==
    /\ pc' = c.pc
    /\ req' = c.req
    /\ proxyUrl' = c.proxyUrl
    /\ proxyResponse' = c.proxyResponse
    /\ loc' = c.loc
    /\ res' = c.res
    /\ io' = c.io

\* another request arrives while the server is at work
Arrive(r) ==
    /\ phase = "serving"
    /\ pc \notin {"off", "idle"}
    /\ Len(SetAside) <= MaxParked
    /\ parked' = [waiting |-> SetAside, resumed |-> FALSE]
    /\ Start(r)
    /\ UNCHANGED <<phase, ctx, fs, emitted, server, fn>>

\* the event loop turns to the i-th suspended activation
Resume(i) ==
    /\ phase = "serving"
    /\ i \in 1..Len(parked.waiting)
    /\ LET rest == SubSeq(parked.waiting, 1, i - 1)
                   \o SubSeq(parked.waiting, i + 1, Len(parked.waiting))
       IN  parked' = [waiting  |-> IF Suspended THEN Append(rest, Closure) ELSE rest,
                      resumed |-> TRUE]
    /\ Restore(parked.waiting[i])
    /\ UNCHANGED <<phase, ctx, fs, emitted, server, fn>>

BarRef == Ref("path", Null, Null, "/bar", <<>>, <<>>)

ConcurrentRequests ==
    {Request("GET", FooRef, DevHost, Null),
     Request("GET", BarRef, Null, Null),
     Request("GET", NoUrl, DevHost, Null)}

ConcurrentResponses(pUrl) ==
    {Response(200, "OK", {<<"content-type", CtHtml>>},
              <<"<head>", BeginC, "stale", EndC, "</head>", "//", OriginHost, "/p">>),
     Response(200, "OK", {<<"content-type", CtPlain>>}, <<"https:", "//", OriginHost, "/p">>),
     Response(200, "OK", {<<"content-type", CtPng>>}, <<"https:", "//", OriginHost, InvalidByte>>),
     Response(302, "Found", {<<"location", MovedRef>>, <<"set-cookie", <<"sid=1">>>>}, <<>>)}

ConcurrentAnswers == IF pc = "fetching" THEN ConcurrentResponses(proxyUrl) ELSE {}

InitConcurrent == \E built \in BOOLEAN : InitWith(Options(NoPath), ServeFiles(MainEntry, built))

NextConcurrent ==
    \/ Startup
    \/ Serve(ConcurrentRequests, ConcurrentAnswers)
    \/ \E r \in ConcurrentRequests : Arrive(r)
    \/ \E i \in 1..MaxParked + 1 : Resume(i)

SpecConcurrent == InitConcurrent /\ [][NextConcurrent]_vars

\* what the handler does with request r when it is the only one and the
\* origin answers with answer (NoResponse: the fetch is rejected): the code
\* from top to bottom, nothing in between
AloneProxyUrl(r) == BuildProxyUrl(r.originalUrl, ctx.options.proxyBlog, server)

AloneOutcomes(r, answer) ==
    LET pu == AloneProxyUrl(r)
    IN  IF answer = NoResponse
        THEN {[pc  |-> "sent",
               res |-> [statusCode |-> 500, statusMessage |-> "Internal Server Error",
                        headers |-> {<<"content-type", <<"text/", "html">>>>},
                        body |-> errorHtml(Href(pu)), ended |-> 1]]}
        ELSE LET host  == RequestHost(r)
                 proto == RequestProtocol(r)
                 ct    == HeaderValue(answer.headers, "content-type")
                 head  == [statusCode |-> answer.status, statusMessage |-> answer.statusText,
                           headers |-> CopyHeaders({}, answer.headers, host, proto,
                                                   r.originalUrl, pu),
                           body |-> <<>>, ended |-> 0]
                 text  == DecodeText(answer.body)
                 html  == IF host # Null THEN replaceHost(text, pu.host, host, proto) ELSE text
                 built == OutTemplate(ctx.viteConfig[1].outDir)
                 Sent(body) == [pc |-> "sent", res |-> [head EXCEPT !.body = body, !.ended = 1]]
             IN  CASE Branch(ct, host) = "html" /\ isViteDevServer(server) ->
                        {Sent(t) : t \in Transforms(replaceBloggerPluginHeadComment(
                                                       html,
                                                       DevScriptTag(ctx.viteConfig[1].root,
                                                                    ctx.entry),
                                                       FALSE))}
                   [] Branch(ct, host) = "html" /\ ~isViteDevServer(server) ->
                        IF built \notin DOMAIN fs
                        THEN {[pc |-> "threw", res |-> head]}
                        ELSE LET tags == getBloggerPluginHeadComment(fs[built], TRUE)
                             IN  {Sent(replaceBloggerPluginHeadComment(
                                          html, IF tags = None THEN <<>> ELSE tags[1], FALSE))}
                   [] Branch(ct, host) = "text" ->
                        {Sent(replaceHost(text, pu.host, host, proto))}
                   [] OTHER -> {Sent(answer.body)}

\* the activation that runs has come to its end as it would have alone
HandledAsAlone ==
    /\ pc \in {"sent", "threw"}
       => /\ proxyUrl = AloneProxyUrl(req)
          /\ [pc |-> pc, res |-> res] \in AloneOutcomes(req, proxyResponse)
          /\ io.fetches = 1
          /\ pc = "sent" => io.infos = <<LogLine(req, res)>>
    /\ pc = "passed" => res = FreshRes /\ io.nexts = 1 /\ io.fetches = 0

\* C12: concurrent requests do not interfere.  No step of the request
\* handler, and no step taken once the server is there, changes a field of
\* PluginContext: ctx is written by config and configResolved only, before any
\* request has arrived.  And every activation of the handler, however it was
\* interleaved with others at its awaits, ends with the response it gives
\* when its request is handled alone.
C12_NoInterference ==
    /\ [][ctx' # ctx => /\ phase \in {"created", "configured"}
                        /\ pc = "off"
                        /\ parked = NoParked]_vars
    /\ []HandledAsAlone

\* a response sent by an activation that had been suspended and resumed while
\* the activation for another request waits for its body
C12_Witness ==
    /\ pc = "sent"
    /\ parked.resumed
    /\ Len(parked.waiting) = 1
    /\ parked.waiting[1].pc = "text"
    /\ parked.waiting[1].req.originalUrl = BarRef
    /\ req.originalUrl = FooRef
    /\ proxyResponse = NoResponse
    /\ res.statusCode = 500

====
